---------------------------- MODULE Spec2Model ----------------------------
(***************************************************************************)
(* A state-machine model of sys/uvm/pmap/pmap_segtab.c (NetBSD 1.28): the  *)
(* segment-table directory of a pmap, the free list of segtabs, the cache  *)
(* of idle page-table pages, and the operations init, lookup, reserve,     *)
(* process and destroy, as run by several kernel threads on a              *)
(* MULTIPROCESSOR build (slots are published with atomic_cas_ptr).         *)
(*                                                                         *)
(* The build options _LP64 (three levels), PMAP_PTP_CACHE and DEBUG (with  *)
(* DIAGNOSTIC: pmap_check_* and KASSERT) are the fields of cfg, fixed in   *)
(* the initial state.  The platform constants are powers of two, scaled    *)
(* down; a shift is a division and a mask a remainder.                     *)
(***************************************************************************)
EXTENDS Integers, Sequences, FiniteSets

VARIABLES
  cfg,          \* the build: [lp64, ptpcache, debug, segtabsize]
  pgfree,       \* the page source: pages it can hand out
  shortage,     \* the page source is under memory pressure
  seg,          \* seg[stb][i]: the slots of every segtab (seg_tab / seg_seg)
  ptes,         \* ptes[pg][j]: the PTEs of every page used as a leaf
  free_segtab,  \* pmap_segtab_info.free_segtab
  ptp_pgflist,  \* pmap_segtab_info.ptp_pgflist, head first
  pm_segtab,    \* pmap->pm_segtab of every pmap
  pm_minaddr,   \* pmap->pm_minaddr of every pmap
  th,           \* every thread: its position and its locals
  panicked,     \* "" or the panic / failed assertion that stopped the kernel
  budget,       \* the number of calls the threads may still make
  ci,           \* the cpu_info of the CPU every thread runs on
  before        \* history: the directory as a thread's noted call found it

vars == << cfg, pgfree, shortage, seg, ptes, free_segtab, ptp_pgflist,
           pm_segtab, pm_minaddr, th, panicked, budget, ci, before >>

(* ------------------------- platform constants ------------------------- *)
PAGE_SIZE == 2
NPTEPG == 2
\* the slots of a segtab, a power of two the build chooses
PMAP_SEGTABSIZE == cfg.segtabsize
NSEGPG == PMAP_SEGTABSIZE
NBSEG == NPTEPG * PAGE_SIZE
NBXSEG == NBSEG * PMAP_SEGTABSIZE
PMAP_CANFAIL == 1
NULL == 0
\* n = NBPG / sizeof(pmap_segtab_t): the segtabs one page is cut into
NSEGTAB_PER_PAGE == 3

(* ------------------------------- bounds ------------------------------- *)
MaxPages == 5
NThreads == 2
NPmaps == 2
MaxCalls == 8
RaceCalls == 4
WalkCalls == 4
PoolCalls == 4
GetCalls == 5
CpuCalls == 5
ListCalls == 4
TwoCalls == 6
FailCalls == 5

Pages == 1 .. MaxPages
Threads == 1 .. NThreads
Pmaps == 1 .. NPmaps
Slots == 0 .. (PMAP_SEGTABSIZE - 1)
PteIdxs == 0 .. (NPTEPG - 1)

(* A kernel virtual address of the direct map is page * PtrStride + offset: *)
(* the offset counts PTEs inside a leaf page and segtabs inside a segtab    *)
(* page.                                                                    *)
PtrStride == IF NPTEPG > NSEGTAB_PER_PAGE THEN NPTEPG ELSE NSEGTAB_PER_PAGE
PMAP_MAP_POOLPAGE(pg) == pg * PtrStride
PMAP_UNMAP_POOLPAGE(p) == p \div PtrStride
PageOffset(p) == p % PtrStride
SegAddrs == { PMAP_MAP_POOLPAGE(pg) + k : pg \in Pages, k \in 0 .. (NSEGTAB_PER_PAGE - 1) }


(* The virtual addresses the directory of a pmap of this build covers, and *)
(* the addresses a vaddr_t holds: one more bit, so that addresses above    *)
(* the covered ones exist, as in the kernel half of an address space.      *)
VASize == IF cfg.lp64 THEN NBXSEG * NSEGPG ELSE NBSEG * PMAP_SEGTABSIZE
VAs == 0 .. (VASize - 1)
VaddrSize == 2 * VASize
Vaddrs == 0 .. (VaddrSize - 1)

(* --------------------------- address fields --------------------------- *)
\* (va >> XSEGSHIFT) & (NSEGPG - 1)
XSegIndex(va) == (va \div NBXSEG) % NSEGPG
\* (va >> SEGSHIFT) & (PMAP_SEGTABSIZE - 1)
SegIndex(va) == (va \div NBSEG) % PMAP_SEGTABSIZE
\* an index into the leaf that ignores the address
PteIndexNone(va) == 0

\* (va >> PGSHIFT) & (NPTEPG - 1)
PteIndex(va) == (va \div PAGE_SIZE) % NPTEPG
pmap_trunc_seg(va) == va - (va % NBSEG)

EmptySegtab == [i \in Slots |-> NULL]
ZeroPtes == [j \in PteIdxs |-> 0]

(* ------------------------------ lookup -------------------------------- *)
pmap_segmap(pm, va) ==
  LET stb == pm_segtab[pm] IN
  IF cfg.lp64
  THEN LET xstb == seg[stb][XSegIndex(va)] IN
       IF xstb = NULL THEN NULL ELSE seg[xstb][SegIndex(va)]
  ELSE seg[stb][SegIndex(va)]

\* a lookup that returns the leaf and not the slot of va in it
pmap_pte_lookup_leaf(pm, va) == pmap_segmap(pm, va)

\* lines 231-239: the slot of va in its leaf, NULL without a leaf
pmap_pte_lookup(pm, va) ==
  LET pte == pmap_segmap(pm, va) IN
  IF pte = NULL THEN NULL ELSE pte + PteIndex(va)

(* --------------------------- the checks ------------------------------- *)
\* pmap_check_stb: under DEBUG, panics when a slot of stb (in memory sg) is
\* not NULL
pmap_check_stb_fails(sg, stb) ==
  cfg.debug /\ \E i \in Slots : sg[stb][i] # NULL

\* pmap_check_ptes: panics when pte is not page aligned and, under DEBUG,
\* when one of the NPTEPG entries is not 0
pmap_check_ptes_fails(pte) ==
  \/ PageOffset(pte) # 0
  \/ cfg.debug /\ \E j \in PteIdxs : ptes[PMAP_UNMAP_POOLPAGE(pte)][j] # 0

(* --------------------------- page source ------------------------------ *)
\* PMAP_ALLOC_POOLPAGE(UVM_PGA_ZERO|UVM_PGA_USERESERVE) returns a page or NULL
CanAllocPage == ~shortage /\ pgfree # {}
pmap_pte_pagealloc ==
  IF CanAllocPage THEN CHOOSE p \in pgfree : \A q \in pgfree : p <= q ELSE NULL

\* the memory of page pg as UVM_PGA_ZERO hands it out
ZeroedSeg(pg) ==
  [s \in SegAddrs |-> IF PMAP_UNMAP_POOLPAGE(s) = pg THEN EmptySegtab ELSE seg[s]]
ZeroedPtes(pg) == [ptes EXCEPT ![pg] = ZeroPtes]

\* a test of the flags that always finds the bit set
HasFlagAlways(flags, bit) == TRUE

\* line 545: flags & bit
HasFlag(flags, bit) == (flags \div bit) % 2 = 1

\* a publication that stores without comparing: the value *p holds afterwards
atomic_store_ptr(old, expected, new) == new
\* a compare-and-swap that writes the expected value back when it fails
atomic_cas_ptr_reset(old, expected, new) == IF old = expected THEN new ELSE expected

\* atomic_cas_ptr(p, expected, new): the value *p holds afterwards
atomic_cas_ptr(old, expected, new) == IF old = expected THEN new ELSE old

(* ------------------------------ threads ------------------------------- *)
IdleThread ==
  [pc |-> "idle", op |-> "none", pmap |-> 0, va |-> 0, flags |-> 0,
   stb |-> NULL, nstb |-> NULL, pg |-> NULL, pte |-> NULL, ret |-> NULL,
   sva |-> 0, eva |-> 0, cb |-> "null", stk |-> << >>, cblog |-> << >>]

Running == panicked = ""

\* PMAP_INVALID_SEGTAB_ADDRESS: a pointer that is neither NULL nor a segtab
PMAP_INVALID_SEGTAB_ADDRESS == -1

\* pmap_kernel(): the kernel pmap, which is none of the user pmaps
pmap_kernel == 0

(* The cpu_info of a CPU nothing was activated on, and the calls the MD     *)
(* hooks pmap_md_xtab_activate / pmap_md_xtab_deactivate have received.     *)
\* no call has been noted
NoSnapshot == [slots |-> << >>, lookup |-> << >>]

IdleCpu ==
  [ci_pmap_user_segtab |-> PMAP_INVALID_SEGTAB_ADDRESS,
   ci_pmap_user_seg0tab |-> PMAP_INVALID_SEGTAB_ADDRESS,
   md_xtab |-> << >>]

\* pm_minaddr is VM_MIN_ADDRESS of the platform, the same for every pmap
MinAddrs == {0, PAGE_SIZE, NBSEG}
Flags == {0, PMAP_CANFAIL}

Init ==
  /\ cfg \in [lp64 : BOOLEAN, ptpcache : BOOLEAN, debug : BOOLEAN, segtabsize : {2}]
  /\ ci = [t \in Threads |-> IdleCpu]
  /\ before = [t \in Threads |-> NoSnapshot]
  /\ pgfree = Pages
  /\ shortage = FALSE
  /\ seg = [s \in SegAddrs |-> EmptySegtab]
  /\ ptes = [pg \in Pages |-> ZeroPtes]
  /\ free_segtab = NULL
  /\ ptp_pgflist = << >>
  /\ pm_segtab = [pm \in Pmaps |-> NULL]
  /\ \E m \in MinAddrs : pm_minaddr = [pm \in Pmaps |-> m]
  /\ th = [t \in Threads |-> IdleThread]
  /\ panicked = ""
  /\ budget = MaxCalls

(* What a call leaves behind when it returns: the call and its result. *)
Returned(r, val) ==
  [IdleThread EXCEPT !.op = r.op, !.pmap = r.pmap, !.va = r.va, !.ret = val, !.sva = r.sva, !.eva = r.eva,
                     !.cb = r.cb, !.cblog = r.cblog]

\* panic(): the kernel stops; the thread that panicked stays where it was
Panic(t, why) ==
  /\ panicked' = why
  /\ th' = [th EXCEPT ![t].pc = "panic"]

\* a thread is inside a call on pmap pm
InUse(pm) == \E t \in Threads : th[t].pc # "idle" /\ th[t].pmap = pm
\* pm has a root and no thread is creating or destroying it
Usable(pm) ==
  /\ pm_segtab[pm] # NULL
  /\ \A t \in Threads :
       (th[t].pc # "idle" /\ th[t].pmap = pm) => th[t].op \notin {"init", "destroy"}

(* ------------------------- pmap_segtab_alloc -------------------------- *)
\* the caller's next step once pmap_segtab_alloc has returned
AfterAlloc(r) == IF r.op = "init" THEN "init_store" ELSE "rsv_xcas"

\* lines 389-392: pmap_check_stb(stb, ...); return stb
SaReturn(t, sg, stb, found_on_freelist) ==
  IF pmap_check_stb_fails(sg, stb)
  THEN Panic(t, IF found_on_freelist THEN "pmap_segtab_alloc: from free list"
                                     ELSE "pmap_segtab_alloc: allocated")
  ELSE /\ th' = [th EXCEPT ![t].pc = AfterAlloc(th[t]), ![t].nstb = stb]
       /\ UNCHANGED panicked

\* a segtab that leaves the free list with its link still in slot 0
KeepLink(stb) == seg

\* line 347: stb->seg_seg[0] = NULL, the link of the free list is cleared
ClearLink(stb) == [seg EXCEPT ![stb][0] = NULL]

\* lines 343-352: under pmap_segtab_lock, take the head of the free list
SaLock(t) ==
  /\ Running /\ th[t].pc = "sa_lock"
  /\ IF free_segtab # NULL
     THEN LET stb == free_segtab
              sg == ClearLink(stb)
          IN /\ free_segtab' = seg[stb][0]
             /\ seg' = sg
             /\ SaReturn(t, sg, stb, TRUE)
     ELSE /\ th' = [th EXCEPT ![t].pc = "sa_page"]
          /\ UNCHANGED << free_segtab, seg, panicked >>
  /\ UNCHANGED << budget, cfg, ci, before, pgfree, shortage, ptes, ptp_pgflist, pm_segtab, pm_minaddr >>

\* lines 375-377: link segtabs 1 .. n-1 of the new page through slot 0
LinkPage(sg, stb) ==
  [s \in SegAddrs |->
     IF /\ PMAP_UNMAP_POOLPAGE(s) = PMAP_UNMAP_POOLPAGE(stb)
        /\ s - stb >= 1 /\ s - stb < NSEGTAB_PER_PAGE - 1
     THEN [sg[s] EXCEPT ![0] = s + 1]
     ELSE sg[s]]

\* an allocation that gives up without a page and returns NULL
SaNoPageGiveUp(r) == [r EXCEPT !.pc = AfterAlloc(r), !.nstb = NULL]

\* lines 357-362: no page: uvm_wait("segtab"); goto again
SaNoPage(r) == [r EXCEPT !.pc = "sa_lock"]

\* lines 354-377: the free list was empty: allocate a page, or uvm_wait and
\* go to again
SaPage(t) ==
  /\ Running /\ th[t].pc = "sa_page"
  /\ LET pg == pmap_pte_pagealloc
         stb == PMAP_MAP_POOLPAGE(pg)
     IN IF pg = NULL
        THEN /\ th' = [th EXCEPT ![t] = SaNoPage(th[t])]
             /\ UNCHANGED << pgfree, seg, ptes, panicked >>
        ELSE /\ pgfree' = pgfree \ {pg}
             /\ ptes' = ZeroedPtes(pg)
             /\ IF NSEGTAB_PER_PAGE > 1
                THEN /\ seg' = LinkPage(ZeroedSeg(pg), stb)
                     /\ th' = [th EXCEPT ![t].pc = "sa_push", ![t].nstb = stb]
                     /\ UNCHANGED panicked
                ELSE /\ seg' = ZeroedSeg(pg)
                     /\ SaReturn(t, ZeroedSeg(pg), stb, FALSE)
  /\ UNCHANGED << budget, cfg, ci, before, shortage, free_segtab, ptp_pgflist, pm_segtab, pm_minaddr >>

\* lines 381-385: under the lock, push segtabs 1 .. n-1 onto the free list
SaPush(t) ==
  /\ Running /\ th[t].pc = "sa_push"
  /\ LET stb == th[t].nstb
         sg == [seg EXCEPT ![stb + NSEGTAB_PER_PAGE - 1][0] = free_segtab]
     IN /\ seg' = sg
        /\ free_segtab' = stb + 1
        /\ SaReturn(t, sg, stb, FALSE)
  /\ UNCHANGED << budget, cfg, ci, before, pgfree, shortage, ptes, ptp_pgflist, pm_segtab, pm_minaddr >>

(* -------------------------- pmap_segtab_init -------------------------- *)
\* line 402, the call: a pmap that is being created gets its root
InitCall(t, pm) ==
  /\ Running /\ th[t].pc = "idle"
  /\ pm_segtab[pm] = NULL /\ ~InUse(pm)
  /\ th' = [th EXCEPT ![t] = [IdleThread EXCEPT !.pc = "sa_lock", !.op = "init",
                                                !.pmap = pm]]
  /\ budget > 0 /\ budget' = budget - 1
  /\ UNCHANGED << cfg, ci, before, pgfree, shortage, seg, ptes, free_segtab, ptp_pgflist,
                  pm_segtab, pm_minaddr, panicked >>

\* line 402, the store: pmap->pm_segtab = pmap_segtab_alloc()
InitStore(t) ==
  /\ Running /\ th[t].pc = "init_store"
  /\ pm_segtab' = [pm_segtab EXCEPT ![th[t].pmap] = th[t].nstb]
  /\ th' = [th EXCEPT ![t] = Returned(th[t], NULL)]
  /\ UNCHANGED << budget, cfg, ci, before, pgfree, shortage, seg, ptes, free_segtab, ptp_pgflist,
                  pm_minaddr, panicked >>

(* -------------------------- pmap_pte_lookup --------------------------- *)
LookupCall(t, pm, va) ==
  /\ Running /\ th[t].pc = "idle"
  /\ Usable(pm)
  /\ th' = [th EXCEPT ![t] = [IdleThread EXCEPT !.op = "lookup", !.pmap = pm,
                                !.va = va, !.ret = pmap_pte_lookup(pm, va)]]
  /\ budget > 0 /\ budget' = budget - 1
  /\ UNCHANGED << cfg, ci, before, pgfree, shortage, seg, ptes, free_segtab, ptp_pgflist,
                  pm_segtab, pm_minaddr, panicked >>

(* The caller of lookup or reserve enters a mapping: it stores a PTE that is *)
(* not 0 through the slot pointer it got, while that slot is still the slot *)
(* of its address.                                                          *)
StorePte(t) ==
  /\ Running /\ th[t].pc = "idle"
  /\ th[t].op \in {"lookup", "reserve"} /\ th[t].ret # NULL
  /\ Usable(th[t].pmap)
  /\ pmap_pte_lookup(th[t].pmap, th[t].va) = th[t].ret
  /\ LET pg == PMAP_UNMAP_POOLPAGE(th[t].ret)
         j == PageOffset(th[t].ret)
     IN /\ ptes[pg][j] = 0
        /\ ptes' = [ptes EXCEPT ![pg][j] = 1]
  /\ budget > 0 /\ budget' = budget - 1
  /\ UNCHANGED << cfg, ci, before, pgfree, shortage, seg, free_segtab, ptp_pgflist,
                  pm_segtab, pm_minaddr, th, panicked >>

(* The page source comes under memory pressure, or is relieved of it.  Only *)
(* a thread that is about to ask for a page can tell when.                 *)
AboutToAlloc(r) ==
  \/ r.pc \in {"sa_page", "rsv_pgalloc"}
  \/ r.pc = "rsv_ptp" /\ ~cfg.ptpcache

MemPressure ==
  /\ Running
  /\ \E t \in Threads : AboutToAlloc(th[t])
  /\ shortage' = ~shortage
  /\ UNCHANGED << budget, cfg, ci, before, pgfree, seg, ptes, free_segtab, ptp_pgflist,
                  pm_segtab, pm_minaddr, th, panicked >>

(* -------------------------- pmap_pte_reserve -------------------------- *)
\* lines 508-513: stb = pmap->pm_segtab; pte = pmap_pte_lookup(pmap, va);
\* a leaf that is there is returned at once
ReserveCall(t, pm, va, flags) ==
  /\ Running /\ th[t].pc = "idle"
  /\ Usable(pm)
  /\ LET pte == pmap_pte_lookup(pm, va)
         r == [IdleThread EXCEPT !.op = "reserve", !.pmap = pm, !.va = va,
                                 !.flags = flags]
     IN th' = [th EXCEPT ![t] =
                 IF pte # NULL THEN Returned(r, pte)
                 ELSE [r EXCEPT !.pc = IF cfg.lp64 THEN "rsv_xseg" ELSE "rsv_ptp",
                                !.stb = pm_segtab[pm]]]
  /\ budget > 0 /\ budget' = budget - 1
  /\ UNCHANGED << cfg, ci, pgfree, shortage, seg, ptes, free_segtab, ptp_pgflist,
                  pm_segtab, pm_minaddr, panicked >>

\* a call of pmap_pte_reserve of which no history is kept
ReserveCallPlain(t, pm, va, flags) ==
  ReserveCall(t, pm, va, flags) /\ UNCHANGED before

\* lines 515-518 (_LP64): stb_p = &stb->seg_seg[...]; stb = *stb_p; a missing
\* segtab is allocated
RsvXseg(t) ==
  /\ Running /\ th[t].pc = "rsv_xseg"
  /\ LET xstb == seg[th[t].stb][XSegIndex(th[t].va)]
     IN th' = [th EXCEPT ![t] =
                 IF xstb = NULL THEN [@ EXCEPT !.pc = "sa_lock"]
                 ELSE [@ EXCEPT !.pc = "rsv_ptp", !.stb = xstb]]
  /\ UNCHANGED << budget, cfg, ci, before, pgfree, shortage, seg, ptes, free_segtab, ptp_pgflist,
                  pm_segtab, pm_minaddr, panicked >>

\* line 520: ostb = atomic_cas_ptr(stb_p, NULL, nstb); lines 529: stb = nstb
RsvXcas(t) ==
  /\ Running /\ th[t].pc = "rsv_xcas"
  /\ LET root == th[t].stb
         i == XSegIndex(th[t].va)
         ostb == seg[root][i]
     IN /\ seg' = [seg EXCEPT ![root][i] = atomic_cas_ptr(ostb, NULL, th[t].nstb)]
        /\ th' = [th EXCEPT ![t] =
                    IF ostb = NULL
                    THEN [@ EXCEPT !.pc = "rsv_ptp", !.stb = th[t].nstb, !.nstb = NULL]
                    ELSE [@ EXCEPT !.pc = "rsv_xlost", !.stb = ostb]]
  /\ UNCHANGED << budget, cfg, ci, before, pgfree, shortage, ptes, free_segtab, ptp_pgflist,
                  pm_segtab, pm_minaddr, panicked >>

\* a pmap_segtab_free that drops the segtab instead of linking it
pmap_segtab_free_drop(stb) == << seg, free_segtab >>

\* pmap_segtab_free, lines 251-255: under the lock, stb becomes the head of
\* the free list; the result is << seg, free_segtab >> afterwards
pmap_segtab_free(stb) ==
  << [seg EXCEPT ![stb][0] = free_segtab], stb >>

\* lines 521-525: another thread installed its segtab first:
\* pmap_check_stb(nstb), pmap_segtab_free(nstb), nstb = ostb
RsvXlost(t) ==
  /\ Running /\ th[t].pc = "rsv_xlost"
  /\ IF pmap_check_stb_fails(seg, th[t].nstb)
     THEN /\ Panic(t, "pmap_pte_reserve: reserve")
          /\ UNCHANGED << seg, free_segtab >>
     ELSE /\ seg' = pmap_segtab_free(th[t].nstb)[1]
          /\ free_segtab' = pmap_segtab_free(th[t].nstb)[2]
          /\ th' = [th EXCEPT ![t].pc = "rsv_ptp", ![t].nstb = NULL]
          /\ UNCHANGED panicked
  /\ UNCHANGED << budget, cfg, ci, before, pgfree, shortage, ptes, ptp_pgflist, pm_segtab, pm_minaddr >>

\* line 531: KASSERT(stb == pmap->pm_segtab->seg_seg[...])
RsvKassertStb(r) ==
  cfg.lp64 /\ cfg.debug
  /\ r.stb # seg[pm_segtab[r.pmap]][XSegIndex(r.va)]

\* lines 543-549: pg = pmap_pte_pagealloc(); without a page, NULL under
\* PMAP_CANFAIL and a panic otherwise
RsvPageAlloc(t) ==
  LET pg == pmap_pte_pagealloc
  IN IF pg # NULL
     THEN /\ pgfree' = pgfree \ {pg}
          /\ ptes' = ZeroedPtes(pg)
          /\ seg' = ZeroedSeg(pg)
          /\ th' = [th EXCEPT ![t].pc = "rsv_cas", ![t].pg = pg]
          /\ UNCHANGED panicked
     ELSE /\ IF HasFlag(th[t].flags, PMAP_CANFAIL)
             THEN /\ th' = [th EXCEPT ![t] = Returned(th[t], NULL)]
                  /\ UNCHANGED panicked
             ELSE Panic(t, "pmap_pte_reserve: cannot allocate page table page")
          /\ UNCHANGED << pgfree, ptes, seg >>

\* lines 533-543: under the lock, take the first page of ptp_pgflist
\* (PMAP_PTP_CACHE); without the cache the page comes from the page source
RsvPtp(t) ==
  /\ Running /\ th[t].pc = "rsv_ptp"
  /\ IF RsvKassertStb(th[t])
     THEN /\ Panic(t, "KASSERT: stb == pmap->pm_segtab->seg_seg[]")
          /\ UNCHANGED << pgfree, ptes, seg, ptp_pgflist >>
     ELSE IF cfg.ptpcache
          THEN IF ptp_pgflist # << >>
               THEN LET pg == Head(ptp_pgflist)
                    IN /\ ptp_pgflist' = Tail(ptp_pgflist)
                       /\ IF cfg.debug /\ ptp_pgflist' # << >> /\ Head(ptp_pgflist') = pg
                          THEN Panic(t, "KASSERT: LIST_FIRST != pg")
                          ELSE /\ th' = [th EXCEPT ![t].pc = "rsv_cas", ![t].pg = pg]
                               /\ UNCHANGED panicked
                       /\ UNCHANGED << pgfree, ptes, seg >>
               ELSE /\ th' = [th EXCEPT ![t].pc = "rsv_pgalloc"]
                    /\ UNCHANGED << pgfree, ptes, seg, ptp_pgflist, panicked >>
          ELSE /\ RsvPageAlloc(t)
               /\ UNCHANGED ptp_pgflist
  /\ UNCHANGED << budget, cfg, ci, before, shortage, free_segtab, pm_segtab, pm_minaddr >>

\* lines 542-549 after the cache was found empty
RsvPgalloc(t) ==
  /\ Running /\ th[t].pc = "rsv_pgalloc"
  /\ RsvPageAlloc(t)
  /\ UNCHANGED << budget, cfg, ci, before, shortage, free_segtab, ptp_pgflist, pm_segtab, pm_minaddr >>

\* lines 551-556: pte = PMAP_MAP_POOLPAGE(pa);
\* opte = atomic_cas_ptr(pte_p, NULL, pte)
RsvCas(t) ==
  /\ Running /\ th[t].pc = "rsv_cas"
  /\ LET stb == th[t].stb
         i == SegIndex(th[t].va)
         pte == PMAP_MAP_POOLPAGE(th[t].pg)
         opte == seg[stb][i]
     IN /\ seg' = [seg EXCEPT ![stb][i] = atomic_cas_ptr(opte, NULL, pte)]
        /\ th' = [th EXCEPT ![t] =
                    IF opte = NULL
                    THEN [@ EXCEPT !.pc = "rsv_chk", !.pte = pte, !.pg = NULL]
                    ELSE [@ EXCEPT !.pc = "rsv_lost", !.pte = opte]]
  /\ UNCHANGED << budget, cfg, ci, before, pgfree, shortage, ptes, free_segtab, ptp_pgflist,
                  pm_segtab, pm_minaddr, panicked >>

\* lines 561-572: the page that lost the race goes to ptp_pgflist, or back
\* to the page source (PMAP_UNMAP_POOLPAGE, uvm_pagefree); pte = opte
RsvLost(t) ==
  /\ Running /\ th[t].pc = "rsv_lost"
  /\ IF cfg.ptpcache
     THEN /\ ptp_pgflist' = << th[t].pg >> \o ptp_pgflist
          /\ UNCHANGED pgfree
     ELSE /\ pgfree' = pgfree \cup {th[t].pg}
          /\ UNCHANGED ptp_pgflist
  /\ th' = [th EXCEPT ![t].pc = "rsv_chk", ![t].pg = NULL]
  /\ UNCHANGED << budget, cfg, ci, before, shortage, seg, ptes, free_segtab, pm_segtab, pm_minaddr,
                  panicked >>

\* a reserve that returns the leaf and forgets the index of va
ReserveResultBase(pte, va) == pte

\* lines 582-585: pte += (va >> PGSHIFT) & (NPTEPG - 1); return pte
ReserveResult(pte, va) == pte + PteIndex(va)

\* lines 576-585: KASSERT(pte == stb->seg_tab[...]); pmap_check_ptes(pte);
\* return the slot of va
RsvChk(t) ==
  /\ Running /\ th[t].pc = "rsv_chk"
  /\ IF cfg.debug /\ th[t].pte # seg[th[t].stb][SegIndex(th[t].va)]
     THEN Panic(t, "KASSERT: pte == stb->seg_tab[]")
     ELSE IF pmap_check_ptes_fails(th[t].pte)
          THEN Panic(t, "pmap_check_ptes")
          ELSE /\ th' = [th EXCEPT ![t] =
                           Returned(th[t], ReserveResult(th[t].pte, th[t].va))]
               /\ UNCHANGED panicked
  /\ UNCHANGED << budget, cfg, ci, before, pgfree, shortage, seg, ptes, free_segtab, ptp_pgflist,
                  pm_segtab, pm_minaddr >>

(* ----------------------------- callbacks ------------------------------ *)
(* A pte_callback_t is NULL ("null"), a callback that only looks ("note") *)
(* or one that clears the PTEs of [sva, eva) starting at ptep ("zero"):   *)
(*   for (; sva < eva; sva += PAGE_SIZE, ptep++) *ptep = 0;               *)
(* Every invocation is recorded in the caller's cblog.                    *)
CallbackPtes(cb, sva, eva, ptep) ==
  LET pg == PMAP_UNMAP_POOLPAGE(ptep)
      first == PageOffset(ptep)
      n == (eva - sva) \div PAGE_SIZE
  IN IF cb = "zero"
     THEN [ptes EXCEPT ![pg] =
             [j \in PteIdxs |-> IF j >= first /\ j < first + n THEN 0 ELSE @[j]]]
     ELSE ptes

(* ------------------------- pmap_segtab_release ------------------------ *)
\* vaddr_t arithmetic wraps at the width of an address
VaAdd(va, n) == (va + n) % VaddrSize

\* line 270: i = (va / vinc) & (PMAP_SEGTABSIZE - 1)
StartIndex(va, vinc) == (va \div vinc) % PMAP_SEGTABSIZE

\* the activation of pmap_segtab_release for *stb_p, where stb_p is
\* &pmap->pm_segtab (ps = NULL) or &ps->seg_seg[pi]
Frame(ps, pi, stb, free_stb, va, vinc) ==
  [ps |-> ps, pi |-> pi, stb |-> stb, free |-> free_stb,
   i |-> StartIndex(va, vinc), va |-> va, vinc |-> vinc]

Top(r) == r.stk[Len(r.stk)]
\* line 272: i++, va += vinc
Advance(r) ==
  [r EXCEPT !.stk[Len(r.stk)].i = @ + 1,
            !.stk[Len(r.stk)].va = VaAdd(@, Top(r).vinc)]
Pop(r) == [r EXCEPT !.stk = SubSeq(@, 1, Len(@) - 1)]

\* a teardown that frees the root whatever the callback
DestroyFreeRootAlways(cb) == TRUE

\* lines 421-422: free_stb of the root is func == NULL
DestroyFreeRoot(cb) == cb = "null"

\* The caller holds the pmap: no other call runs on it.  Without a callback
\* the caller has removed every mapping before (lines 406-408).
DestroyCall(t, pm, cb, flags) ==
  /\ Running /\ th[t].pc = "idle"
  /\ ~InUse(pm)
  /\ cb = "null" =>
       \A va \in VAs : pm_segtab[pm] # NULL /\ pmap_segmap(pm, va) # NULL =>
                         ptes[PMAP_UNMAP_POOLPAGE(pmap_segmap(pm, va))] = ZeroPtes
  /\ LET r == [IdleThread EXCEPT !.op = "destroy", !.pmap = pm, !.cb = cb,
                                 !.flags = flags]
         vinc == IF cfg.lp64 THEN NBXSEG ELSE NBSEG
     IN th' = [th EXCEPT ![t] =
                 IF pm_segtab[pm] = NULL THEN Returned(r, NULL)
                 ELSE [r EXCEPT !.pc = "rel_loop",
                                !.stk = << Frame(NULL, 0, pm_segtab[pm],
                                                 DestroyFreeRoot(cb),
                                                 pm_minaddr[pm], vinc) >>]]
  /\ budget > 0 /\ budget' = budget - 1
  /\ UNCHANGED << cfg, ci, before, pgfree, shortage, seg, ptes, free_segtab, ptp_pgflist,
                  pm_segtab, pm_minaddr, panicked >>

\* a teardown that does not call the callback
RelCallbackNone(cb, va, vinc, pte) == ptes

\* lines 296-298: if (callback != NULL) (*callback)(pmap, va, va + vinc, pte,
\* flags): the PTEs afterwards
RelCallback(cb, va, vinc, pte) ==
  IF cb = "null" THEN ptes ELSE CallbackPtes(cb, va, va + vinc, pte)

\* lines 270-298: one turn of the loop, up to the callback
RelLoop(t) ==
  /\ Running /\ th[t].pc = "rel_loop"
  /\ LET r == th[t]
         f == Top(r)
         ent == seg[f.stb][f.i]
     IN IF f.i >= PMAP_SEGTABSIZE
        THEN /\ th' = [th EXCEPT ![t].pc = "rel_end"]
             /\ UNCHANGED << ptes, panicked >>
        ELSE IF ent = NULL
        THEN /\ th' = [th EXCEPT ![t] = Advance(r)]
             /\ UNCHANGED << ptes, panicked >>
        ELSE IF f.vinc > NBSEG
        THEN /\ th' = [th EXCEPT ![t].stk =
                         Append(@, Frame(f.stb, f.i, ent, TRUE, f.va,
                                         f.vinc \div NSEGPG))]
             /\ UNCHANGED << ptes, panicked >>
        ELSE IF pmap_check_ptes_fails(ent)
        THEN /\ Panic(t, "pmap_check_ptes")
             /\ UNCHANGED ptes
        ELSE /\ ptes' = RelCallback(r.cb, f.va, f.vinc, ent)
             /\ th' = [th EXCEPT ![t].pc = "rel_push", ![t].pte = ent,
                         ![t].cblog = IF r.cb = "null" THEN @
                                      ELSE Append(@, << f.va, f.va + f.vinc, ent >>)]
             /\ UNCHANGED panicked
  /\ UNCHANGED << budget, cfg, ci, before, pgfree, shortage, seg, free_segtab, ptp_pgflist,
                  pm_segtab, pm_minaddr >>

\* lines 301-309: the leaf page goes to ptp_pgflist (under the lock), or to
\* uvm_pagefree
RelPush(t) ==
  /\ Running /\ th[t].pc = "rel_push"
  /\ LET pg == PMAP_UNMAP_POOLPAGE(th[t].pte)
     IN IF cfg.ptpcache
        THEN /\ ptp_pgflist' = << pg >> \o ptp_pgflist
             /\ UNCHANGED pgfree
        ELSE /\ pgfree' = pgfree \cup {pg}
             /\ UNCHANGED ptp_pgflist
  /\ th' = [th EXCEPT ![t].pc = "rel_null"]
  /\ UNCHANGED << budget, cfg, ci, before, shortage, seg, ptes, free_segtab, pm_segtab, pm_minaddr,
                  panicked >>

\* line 311: stb->seg_tab[i] = NULL
RelNull(t) ==
  /\ Running /\ th[t].pc = "rel_null"
  /\ seg' = [seg EXCEPT ![Top(th[t]).stb][Top(th[t]).i] = NULL]
  /\ th' = [th EXCEPT ![t] = [Advance(th[t]) EXCEPT !.pc = "rel_loop", !.pte = NULL]]
  /\ UNCHANGED << budget, cfg, ci, before, pgfree, shortage, ptes, free_segtab, ptp_pgflist,
                  pm_segtab, pm_minaddr, panicked >>

\* the return of one activation: to the caller's loop (line 280, KASSERT
\* and continue), or out of pmap_segtab_destroy
RelReturn(r) ==
  LET up == Pop(r)
  IN IF up.stk = << >> THEN Returned(r, NULL)
     ELSE [Advance(up) EXCEPT !.pc = "rel_loop"]

\* lines 315-318: if (free_stb) pmap_check_stb(stb); pmap_segtab_free(stb)
RelEnd(t) ==
  /\ Running /\ th[t].pc = "rel_end"
  /\ LET f == Top(th[t])
     IN IF ~f.free
        THEN /\ th' = [th EXCEPT ![t] = RelReturn(th[t])]
             /\ UNCHANGED << seg, free_segtab, panicked >>
        ELSE IF pmap_check_stb_fails(seg, f.stb)
        THEN /\ Panic(t, IF f.vinc = NBSEG THEN "pmap_segtab_release: release seg"
                                           ELSE "pmap_segtab_release: release xseg")
             /\ UNCHANGED << seg, free_segtab >>
        ELSE /\ seg' = pmap_segtab_free(f.stb)[1]
             /\ free_segtab' = pmap_segtab_free(f.stb)[2]
             /\ th' = [th EXCEPT ![t].pc = "rel_unlink"]
             /\ UNCHANGED panicked
  /\ UNCHANGED << budget, cfg, ci, before, pgfree, shortage, ptes, ptp_pgflist, pm_segtab, pm_minaddr >>

\* line 319: *stb_p = NULL, then the return
RelUnlink(t) ==
  /\ Running /\ th[t].pc = "rel_unlink"
  /\ LET f == Top(th[t])
         sg == IF f.ps = NULL THEN seg ELSE [seg EXCEPT ![f.ps][f.pi] = NULL]
     IN /\ seg' = sg
        /\ pm_segtab' = IF f.ps = NULL
                        THEN [pm_segtab EXCEPT ![th[t].pmap] = NULL]
                        ELSE pm_segtab
        /\ IF cfg.debug /\ f.ps # NULL /\ sg[f.ps][f.pi] # NULL
           THEN Panic(t, "KASSERT: stb->seg_seg[i] == NULL")
           ELSE /\ th' = [th EXCEPT ![t] = RelReturn(th[t])]
                /\ UNCHANGED panicked
  /\ UNCHANGED << budget, cfg, ci, before, pgfree, shortage, ptes, free_segtab, ptp_pgflist, pm_minaddr >>

(* -------------------------- pmap_pte_process -------------------------- *)
ProcessCall(t, pm, sva, eva, cb, flags) ==
  /\ Running /\ th[t].pc = "idle"
  /\ Usable(pm)
  /\ sva <= eva
  /\ th' = [th EXCEPT ![t] = [IdleThread EXCEPT !.pc = "pp_loop", !.op = "process",
                                !.pmap = pm, !.sva = sva, !.va = sva, !.eva = eva,
                                !.cb = cb,
                                !.flags = flags]]
  /\ budget > 0 /\ budget' = budget - 1
  /\ UNCHANGED << cfg, ci, before, pgfree, shortage, seg, ptes, free_segtab, ptp_pgflist,
                  pm_segtab, pm_minaddr, panicked >>

\* the end of the segment of sva, not cut to eva
LastSegVaUncut(sva, eva) == VaAdd(pmap_trunc_seg(sva), NBSEG)

\* the end of the segment of sva, cut to eva but for the wrap to 0
LastSegVaNoWrap(sva, eva) ==
  LET lastseg_va == VaAdd(pmap_trunc_seg(sva), NBSEG)
  IN IF lastseg_va > eva THEN eva ELSE lastseg_va

\* lines 478-480: lastseg_va = pmap_trunc_seg(sva) + NBSEG, cut to eva
LastSegVa(sva, eva) ==
  LET lastseg_va == VaAdd(pmap_trunc_seg(sva), NBSEG)
  IN IF lastseg_va = 0 \/ lastseg_va > eva THEN eva ELSE lastseg_va

\* lines 477-498: one turn of while (sva < eva)
PpLoop(t) ==
  /\ Running /\ th[t].pc = "pp_loop"
  /\ LET r == th[t]
         sva == r.va
         lastseg_va == LastSegVa(sva, r.eva)
         ptep == pmap_pte_lookup(r.pmap, sva)
     IN IF sva < r.eva
        THEN /\ ptes' = IF ptep # NULL
                        THEN CallbackPtes(r.cb, sva, lastseg_va, ptep) ELSE ptes
             /\ th' = [th EXCEPT ![t].va = lastseg_va,
                         ![t].cblog = IF ptep # NULL
                                      THEN Append(@, << sva, lastseg_va, ptep >>)
                                      ELSE @]
        ELSE /\ th' = [th EXCEPT ![t] = Returned(r, NULL)]
             /\ UNCHANGED ptes
  /\ UNCHANGED << budget, cfg, ci, before, pgfree, shortage, seg, free_segtab, ptp_pgflist,
                  pm_segtab, pm_minaddr, panicked >>

(* --------------------------- specifications --------------------------- *)
\* the addresses of a pmap's own range, [pm_minaddr, VASize)
PmapVAs(pm) == { va \in VAs : va >= pm_minaddr[pm] }
PageAligned(S) == { va \in S : va % PAGE_SIZE = 0 }

AllocStep(t) == SaLock(t) \/ SaPage(t) \/ SaPush(t) \/ InitStore(t)

ReserveStep(t) ==
  \/ RsvXseg(t) \/ RsvXcas(t) \/ RsvXlost(t) \/ RsvPtp(t) \/ RsvPgalloc(t)
  \/ RsvCas(t) \/ RsvLost(t) \/ RsvChk(t)

ReleaseStep(t) == RelLoop(t) \/ RelPush(t) \/ RelNull(t) \/ RelEnd(t) \/ RelUnlink(t)

\* One thread makes every call, one after the other, on one pmap, which is
\* created again after a teardown has freed its root; the addresses are the
\* first of each leaf.
LeafVAs(pm) == { va \in PmapVAs(pm) : va % NBSEG = 0 }

\* the steps of a reserve that meets no other thread
ReserveAloneStep(t) ==
  \/ RsvXseg(t) \/ RsvXcas(t) \/ RsvPtp(t) \/ RsvPgalloc(t) \/ RsvCas(t) \/ RsvChk(t)

NextSeq ==
  \/ InitCall(1, 1)
  \/ AllocStep(1)
  \/ \E va \in LeafVAs(1) : \E f \in Flags : ReserveCallPlain(1, 1, va, f)
  \/ ReserveAloneStep(1)
  \/ StorePte(1)
  \/ \E cb \in {"null", "zero"} : DestroyCall(1, 1, cb, 0)
  \/ ReleaseStep(1)

Spec == Init /\ [][NextSeq]_vars

\* Several threads look up, reserve and store in one pmap at the same time,
\* while the page source comes under pressure and recovers.
InitRace ==
  /\ cfg \in [lp64 : BOOLEAN, ptpcache : BOOLEAN, debug : BOOLEAN, segtabsize : {2}]
  /\ ci = [t \in Threads |-> IdleCpu]
  /\ before = [t \in Threads |-> NoSnapshot]
  /\ pgfree = Pages
  /\ shortage = FALSE
  /\ seg = [s \in SegAddrs |-> EmptySegtab]
  /\ ptes = [pg \in Pages |-> ZeroPtes]
  /\ free_segtab = NULL
  /\ ptp_pgflist = << >>
  /\ pm_segtab = [pm \in Pmaps |-> NULL]
  /\ pm_minaddr = [pm \in Pmaps |-> 0]
  /\ th = [t \in Threads |-> IdleThread]
  /\ panicked = ""
  /\ budget = RaceCalls

\* the addresses the racing threads use: two pages of one leaf, the next
\* leaf and, with three levels, a leaf under another segtab
RaceVAs == {0, PAGE_SIZE, NBSEG} \cup (IF cfg.lp64 THEN {NBXSEG} ELSE {})

NextRace ==
  \/ InitCall(1, 1)
  \/ \E t \in Threads : AllocStep(t)
  \/ \E t \in Threads : \E va \in RaceVAs : \E f \in Flags :
       ReserveCallPlain(t, 1, va, f)
  \/ \E t \in Threads : ReserveStep(t)
  \/ \E t \in Threads : StorePte(t)
  \/ MemPressure

SpecRace == InitRace /\ [][NextRace]_vars

\* One thread reserves leaves in one pmap, enters mappings and walks ranges
\* of addresses with a callback that only looks.
InitWalk ==
  /\ cfg \in [lp64 : BOOLEAN, ptpcache : {TRUE}, debug : {TRUE}, segtabsize : {2}]
  /\ ci = [t \in Threads |-> IdleCpu]
  /\ before = [t \in Threads |-> NoSnapshot]
  /\ pgfree = Pages
  /\ shortage = FALSE
  /\ seg = [s \in SegAddrs |-> EmptySegtab]
  /\ ptes = [pg \in Pages |-> ZeroPtes]
  /\ free_segtab = NULL
  /\ ptp_pgflist = << >>
  /\ pm_segtab = [pm \in Pmaps |-> NULL]
  /\ pm_minaddr = [pm \in Pmaps |-> 0]
  /\ th = [t \in Threads |-> IdleThread]
  /\ panicked = ""
  /\ budget = WalkCalls

NextWalk ==
  \/ InitCall(1, 1)
  \/ AllocStep(1)
  \/ \E va \in PageAligned(VAs) : ReserveCallPlain(1, 1, va, 0)
  \/ ReserveAloneStep(1)
  \/ \E va \in PageAligned(VAs) : LookupCall(1, 1, va)
  \/ StorePte(1)
  \/ \E sva \in PageAligned(Vaddrs) : \E eva \in PageAligned(Vaddrs) :
       ProcessCall(1, 1, sva, eva, "note", 0)
  \/ PpLoop(1)

SpecWalk == InitWalk /\ [][NextWalk]_vars

(* ------------------------ what the state holds ------------------------ *)
ReturnedFrom(t, op) == th[t].pc = "idle" /\ th[t].op = op

\* the segtabs on the free list, from its head
RECURSIVE FreeListFrom(_, _)
FreeListFrom(stb, n) ==
  IF stb = NULL \/ n = 0 THEN {} ELSE {stb} \cup FreeListFrom(seg[stb][0], n - 1)
FreeSegtabs == FreeListFrom(free_segtab, Cardinality(SegAddrs))

\* the segtabs of the directory of pm: its root and, with three levels, the
\* segtabs in the slots of the root
DirSegtabs(pm) ==
  IF pm_segtab[pm] = NULL THEN {}
  ELSE {pm_segtab[pm]} \cup
       (IF cfg.lp64 THEN { seg[pm_segtab[pm]][i] : i \in Slots } \ {NULL} ELSE {})

\* the segtabs of pm whose slots hold leaves
LeafSegtabs(pm) ==
  IF pm_segtab[pm] = NULL THEN {}
  ELSE IF cfg.lp64 THEN { seg[pm_segtab[pm]][i] : i \in Slots } \ {NULL}
  ELSE {pm_segtab[pm]}

\* the leaf pages installed in the directory of pm
LeafPages(pm) ==
  { PMAP_UNMAP_POOLPAGE(seg[s][i]) : s \in LeafSegtabs(pm), i \in Slots } \ {NULL}

Range(q) == { q[k] : k \in 1 .. Len(q) }

\* what the threads hold privately between two steps of a call
HeldPages == { th[t].pg : t \in Threads } \ {NULL}
HeldSegtabs ==
  UNION { IF th[t].nstb = NULL THEN {}
          ELSE IF th[t].pc = "sa_push"
          THEN { s \in SegAddrs :
                   PMAP_UNMAP_POOLPAGE(s) = PMAP_UNMAP_POOLPAGE(th[t].nstb) }
          ELSE {th[t].nstb} : t \in Threads }

AllDirSegtabs == UNION { DirSegtabs(pm) : pm \in Pmaps }
AllLeafPages == UNION { LeafPages(pm) : pm \in Pmaps }

\* Every page is in one place: with the page source, in ptp_pgflist, a leaf
\* of a directory, in the hands of a thread, or cut into segtabs each of
\* which is in a directory, on the free list or in the hands of a thread.
NoPageLost ==
  /\ \A pg \in Pages \ (pgfree \cup Range(ptp_pgflist) \cup AllLeafPages \cup HeldPages) :
       \A s \in SegAddrs :
         PMAP_UNMAP_POOLPAGE(s) = pg =>
           s \in AllDirSegtabs \cup FreeSegtabs \cup HeldSegtabs
  /\ AllLeafPages \cap (pgfree \cup Range(ptp_pgflist) \cup HeldPages) = {}
  /\ Range(ptp_pgflist) \cap pgfree = {}
  /\ AllDirSegtabs \cap FreeSegtabs = {}

\* a step in which a call of op by thread t returns
Returns(t, op) ==
  /\ th'[t] # th[t] /\ th'[t].pc = "idle" /\ th'[t].op = op

(* ------------------------------- claims ------------------------------- *)
\* C1 (round-trip): once pmap_pte_reserve(P, va, flags) has returned a slot
\* X that is not NULL, and while P is not torn down, pmap_pte_lookup(P, va)
\* is X, whatever other reserves and stores of PTEs happen in between; any
\* two reserves of the same address have returned the same slot.
C1_RoundTrip ==
  /\ \A t \in Threads :
       ReturnedFrom(t, "reserve") /\ th[t].ret # NULL =>
         pmap_pte_lookup(th[t].pmap, th[t].va) = th[t].ret
  /\ \A t, u \in Threads :
       /\ ReturnedFrom(t, "reserve") /\ ReturnedFrom(u, "reserve")
       /\ th[t].pmap = th[u].pmap /\ th[t].va = th[u].va
       /\ th[t].ret # NULL /\ th[u].ret # NULL
       => th[t].ret = th[u].ret

\* a reserve of a slot that is not the first of its leaf has returned, and
\* another thread has since reserved a slot in another leaf
C1_Witness ==
  \E t, u \in Threads :
    /\ ReturnedFrom(t, "reserve") /\ th[t].ret # NULL /\ PteIndex(th[t].va) # 0
    /\ ReturnedFrom(u, "reserve") /\ th[u].ret # NULL
    /\ pmap_trunc_seg(th[u].va) # pmap_trunc_seg(th[t].va)
    /\ ptes[PMAP_UNMAP_POOLPAGE(th[t].ret)][PageOffset(th[t].ret)] # 0

\* C2 (race convergence): threads that reserve the same absent slot at the
\* same time all get the same pointer; a slot of the directory that holds a
\* leaf keeps that leaf, so one leaf page only is ever installed; and the
\* page and the segtab of every thread that lost the race are back in
\* ptp_pgflist, with the page source or on the free list: no page is lost.
C2_SamePointer ==
  \A t, u \in Threads :
    /\ ReturnedFrom(t, "reserve") /\ ReturnedFrom(u, "reserve")
    /\ th[t].pmap = th[u].pmap
    /\ pmap_trunc_seg(th[t].va) = pmap_trunc_seg(th[u].va)
    /\ th[t].ret # NULL /\ th[u].ret # NULL
    => th[t].ret - PteIndex(th[t].va) = th[u].ret - PteIndex(th[u].va)

C2_LosersReturned ==
  /\ NoPageLost
  /\ \A t \in Threads :
       th[t].pc \in {"idle", "rsv_chk"} => th[t].pg = NULL /\ th[t].nstb = NULL

C2_InstalledOnce ==
  \A pm \in Pmaps : \A va \in VAs :
    pm_segtab[pm] # NULL /\ pmap_segmap(pm, va) # NULL =>
      pmap_segmap(pm, va)' = pmap_segmap(pm, va)

C2_RaceConvergence ==
  /\ [](C2_SamePointer /\ C2_LosersReturned)
  /\ [][C2_InstalledOnce]_vars

\* two threads have reserved the same slot, that was absent, at the same
\* time: one lost the race, and both have returned
C2_Witness ==
  /\ \A t \in Threads :
       /\ ReturnedFrom(t, "reserve") /\ th[t].ret # NULL /\ th[t].va = th[1].va
  /\ budget = RaceCalls - 1 - NThreads
  /\ \/ ptp_pgflist # << >>
     \/ ~cfg.ptpcache /\ Cardinality(pgfree) = MaxPages - 2

\* C6 (monotonic growth): while nothing is torn down, the root of a pmap
\* and every slot of a segtab of its directory, once not NULL, keep their
\* value.
C6_Monotonic ==
  /\ \A pm \in Pmaps : pm_segtab[pm] # NULL => pm_segtab'[pm] = pm_segtab[pm]
  /\ \A s \in AllDirSegtabs : \A i \in Slots :
       seg[s][i] # NULL => seg'[s][i] = seg[s][i]

C6_MonotonicGrowth == [][C6_Monotonic]_vars

\* every slot of the root is in use, and a thread that found one of them
\* empty is about to publish into it
C6_Witness ==
  /\ pm_segtab[1] # NULL
  /\ \A i \in Slots : seg[pm_segtab[1]][i] # NULL
  /\ \E t \in Threads : th[t].pc \in {"rsv_cas", "rsv_xcas"}

\* C10 (CANFAIL): pmap_pte_reserve returns NULL only from the step that
\* asked the page source for a leaf page and got none (ptp_pgflist, where
\* there is one, was found empty before), and only under PMAP_CANFAIL;
\* without the flag that step panics; with a page to be had it does neither.
C10_Step ==
  \A t \in Threads :
    LET asks == \/ th[t].pc = "rsv_pgalloc"
                \/ th[t].pc = "rsv_ptp" /\ ~cfg.ptpcache /\ ~RsvKassertStb(th[t])
        nopage == asks /\ ~CanAllocPage
        cannot == "pmap_pte_reserve: cannot allocate page table page"
    IN /\ Returns(t, "reserve") /\ th'[t].ret = NULL =>
            nopage /\ th[t].flags = PMAP_CANFAIL
       /\ panicked = "" /\ panicked' = cannot /\ th'[t].pc = "panic" =>
            nopage /\ th[t].flags = 0
       /\ nopage /\ th'[t] # th[t] =>
            IF th[t].flags = PMAP_CANFAIL
            THEN Returns(t, "reserve") /\ th'[t].ret = NULL /\ panicked' = ""
            ELSE panicked' = cannot
       /\ asks /\ ~nopage /\ th'[t] # th[t] => th'[t].pc = "rsv_cas" /\ panicked' = ""

C10_CanFail == [][C10_Step]_vars

\* a reserve under PMAP_CANFAIL has returned NULL while the page source
\* was short of pages
C10_Witness ==
  \E t \in Threads :
    /\ ReturnedFrom(t, "reserve") /\ th[t].ret = NULL /\ shortage
    /\ pm_segtab[1] # NULL /\ pmap_segmap(1, th[t].va) = NULL

\* Each thread creates, fills and tears down a pmap of its own, so that
\* segtabs are taken from and put back to the free list at the same time.
InitPool ==
  /\ cfg \in [lp64 : BOOLEAN, ptpcache : BOOLEAN, debug : BOOLEAN, segtabsize : {2}]
  /\ ci = [t \in Threads |-> IdleCpu]
  /\ before = [t \in Threads |-> NoSnapshot]
  /\ pgfree = Pages
  /\ shortage = FALSE
  /\ seg = [s \in SegAddrs |-> EmptySegtab]
  /\ ptes = [pg \in Pages |-> ZeroPtes]
  /\ free_segtab = NULL
  /\ ptp_pgflist = << >>
  /\ pm_segtab = [pm \in Pmaps |-> NULL]
  /\ pm_minaddr = [pm \in Pmaps |-> 0]
  /\ th = [t \in Threads |-> IdleThread]
  /\ panicked = ""
  /\ budget = PoolCalls

NextPool ==
  \/ \E t \in Threads : InitCall(t, t)
  \/ \E t \in Threads : AllocStep(t)
  \/ \E t \in Threads : \E va \in LeafVAs(t) : ReserveCallPlain(t, t, va, 0)
  \/ \E t \in Threads : ReserveAloneStep(t)
  \/ \E t \in Threads : \E cb \in {"null", "zero"} : DestroyCall(t, t, cb, 0)
  \/ \E t \in Threads : ReleaseStep(t)

SpecPool == InitPool /\ [][NextPool]_vars

\* C3 (teardown and the root): pmap_segtab_destroy(P, cb, flags) frees the
\* root segtab and clears pm_segtab only when cb is NULL.  With a callback
\* the root pointer is never changed and the root segtab never reaches the
\* free list; when the call returns, every slot of the root is NULL and the
\* segtabs below it are on the free list.
C3_Step ==
  \A t \in Threads :
    th[t].op = "destroy" /\ th[t].pc \notin {"idle", "panic"} =>
      LET pm == th[t].pmap
          root == pm_segtab[pm]
      IN /\ th[t].cb # "null" =>
              /\ root # NULL /\ pm_segtab'[pm] = root
              /\ root \notin FreeSegtabs'
         /\ Returns(t, "destroy") =>
              IF th[t].cb = "null"
              THEN pm_segtab'[pm] = NULL /\ root \in FreeSegtabs'
              ELSE /\ \A i \in Slots : seg'[root][i] = NULL
                   /\ \A s \in DirSegtabs(pm) \ {root} : s \in FreeSegtabs'

C3_RootKeptUnderCallback == [][C3_Step]_vars

\* a teardown with a callback has returned: it called the callback, and the
\* root is still in place
C3_Witness ==
  /\ ReturnedFrom(1, "destroy") /\ th[1].cb = "zero" /\ Len(th[1].cblog) >= 1
  /\ pm_segtab[1] # NULL /\ pm_segtab[1] \notin FreeSegtabs
  /\ cfg.lp64 /\ FreeSegtabs # {}

\* C3 as the specification has it: after a teardown with a callback the
\* root pointer is NULL and the root segtab is on the free list.
C3_RootFreedAlways ==
  \A t \in Threads :
    ReturnedFrom(t, "destroy") /\ th[t].cb # "null" =>
      pm_segtab[th[t].pmap] = NULL

\* C4 (teardown recovers every leaf): when pmap_segtab_destroy(P, zero_cb,
\* 0) has returned, the callback has been called once for each leaf, no
\* leaf is left in the directory of P, and each leaf page is in ptp_pgflist
\* or, without PMAP_PTP_CACHE, back with the page source, ptp_pgflist being
\* empty; no page is lost.  A reserve that finds a page in ptp_pgflist
\* takes that page and leaves the page source alone.
C4_AfterDestroy ==
  \A t \in Threads :
    ReturnedFrom(t, "destroy") /\ th[t].cb = "zero" =>
      LET log == th[t].cblog
      IN /\ LeafPages(th[t].pmap) = {}
         /\ \A j, k \in 1 .. Len(log) : j # k => log[j][3] # log[k][3]
         /\ \A j \in 1 .. Len(log) :
              LET pg == PMAP_UNMAP_POOLPAGE(log[j][3])
              IN IF cfg.ptpcache THEN pg \in Range(ptp_pgflist) ELSE pg \in pgfree
         /\ ~cfg.ptpcache => ptp_pgflist = << >>
         /\ NoPageLost

C4_FromCache ==
  \A t \in Threads :
    th[t].pc = "rsv_ptp" /\ th'[t].pc = "rsv_cas" /\ ptp_pgflist # << >> =>
      /\ th'[t].pg = Head(ptp_pgflist)
      /\ pgfree' = pgfree

C4_TeardownRecoversLeaves == []C4_AfterDestroy /\ [][C4_FromCache]_vars

\* C5 (zero initialization): a leaf page is all zero at the moment
\* pmap_pte_reserve installs it in its slot, whether the page comes from the
\* page source or from ptp_pgflist after a teardown; and the call that
\* installed it, no other thread being at work, returns a slot of a leaf
\* that is all zero.
C5_Step ==
  \A t \in Threads :
    /\ th[t].pc = "rsv_cas" /\ th'[t].pc = "rsv_chk" /\ th'[t].pg = NULL /\ th[t].pg # NULL
         /\ seg[th[t].stb][SegIndex(th[t].va)] = NULL =>
         /\ ptes[th[t].pg] = ZeroPtes
         /\ seg'[th[t].stb][SegIndex(th[t].va)] = PMAP_MAP_POOLPAGE(th[t].pg)
    /\ th[t].pc = "rsv_chk" /\ Returns(t, "reserve") =>
         ptes'[PMAP_UNMAP_POOLPAGE(th'[t].ret)] = ZeroPtes

C5_ZeroAtEveryReturn_Step ==
  \A t \in Threads :
    Returns(t, "reserve") /\ th'[t].ret # NULL =>
      ptes'[PMAP_UNMAP_POOLPAGE(th'[t].ret)] = ZeroPtes

C9_PoolRecycling ==
  /\ panicked \notin {"pmap_segtab_alloc: from free list",
                      "pmap_segtab_alloc: allocated"}
  /\ \A t \in Threads :
       th[t].pc \in {"init_store", "rsv_xcas"} => seg[th[t].nstb] = EmptySegtab

\* a thread alone has created a pmap, given it a leaf and torn it down, and
\* pmap_segtab_alloc has just handed it the segtab that was the root
C9_Witness ==
  /\ th[1].pc = "init_store" /\ th[1].nstb = PMAP_MAP_POOLPAGE(1)
  /\ th[2] = IdleThread
  /\ cfg.ptpcache /\ ptp_pgflist # << >>

\* the calls of the callback that a pmap_pte_process by thread t has made
ProcessLog(t) == IF th[t].op = "process" THEN th[t].cblog ELSE << >>
IntMin(a, b) == IF a < b THEN a ELSE b
\* the first addresses of the leaves that are there and meet [sva, eva)
PopulatedIn(pm, sva, eva) ==
  { va \in Vaddrs : /\ va % NBSEG = 0
                    /\ sva < eva /\ va < eva /\ va + NBSEG > sva
                    /\ pmap_segmap(pm, va) # NULL }

\* C7 (range walker spans): pmap_pte_process(P, sva, eva, cb, f) calls cb at
\* most ceil((eva - sva) / NBSEG) + 1 times, never for a leaf that is not
\* there, with va_start going up and va_end = min(trunc_seg(va_start) +
\* NBSEG, eva), so that the ranges are disjoint and inside [sva, eva); when
\* it has returned it has called cb once for each leaf that is there and
\* meets [sva, eva).
C7_WalkerSpans ==
  \A t \in Threads :
    LET log == ProcessLog(t)
        sva == th[t].sva
        eva == th[t].eva
    IN /\ Len(log) <= ((eva - sva) + NBSEG - 1) \div NBSEG + 1
       /\ \A k \in 1 .. Len(log) :
            /\ log[k][2] = IntMin(pmap_trunc_seg(log[k][1]) + NBSEG, eva)
            /\ sva <= log[k][1] /\ log[k][1] < log[k][2] /\ log[k][2] <= eva
            /\ pmap_segmap(th[t].pmap, log[k][1]) # NULL
            /\ k > 1 => log[k - 1][2] <= log[k][1]
       /\ ReturnedFrom(t, "process") =>
            /\ { pmap_trunc_seg(log[k][1]) : k \in 1 .. Len(log) }
                 = PopulatedIn(th[t].pmap, sva, eva)
            /\ \A j, k \in 1 .. Len(log) :
                 j # k => pmap_trunc_seg(log[j][1]) # pmap_trunc_seg(log[k][1])

\* a walk of four leaves from address 0 has returned; the third leaf alone
\* was there, and the callback was called once, for the whole of it
C7_Witness ==
  /\ ReturnedFrom(1, "process") /\ th[1].sva = 0 /\ th[1].eva = 4 * NBSEG
  /\ Len(th[1].cblog) = 1
  /\ th[1].cblog[1][1] = 2 * NBSEG /\ th[1].cblog[1][2] = 3 * NBSEG
  /\ PopulatedIn(1, 0, 4 * NBSEG) = {2 * NBSEG}

\* C8 (range walker pointer): the pointer that pmap_pte_process hands to
\* the callback with the range [va, boundary) is the slot of va: the leaf
\* plus the index of va in it.  It is the first slot of the leaf when va is
\* the first address of the leaf, and only then.
C8_PointerIsSlotOfVa ==
  \A t \in Threads :
    \A k \in 1 .. Len(ProcessLog(t)) :
      LET va == ProcessLog(t)[k][1]
          ptr == ProcessLog(t)[k][3]
          leaf == pmap_segmap(th[t].pmap, va)
      IN /\ ptr = leaf + PteIndex(va)
         /\ ptr = leaf <=> va = pmap_trunc_seg(va)

\* a walk that began inside a leaf has called the callback for the rest of
\* that leaf and for the leaf after it
C8_Witness ==
  /\ Len(ProcessLog(1)) = 2
  /\ ProcessLog(1)[1][1] # pmap_trunc_seg(ProcessLog(1)[1][1])
  /\ ProcessLog(1)[2][1] = pmap_trunc_seg(ProcessLog(1)[2][1])

\* C8 as the specification has it: the pointer is the first slot of the
\* leaf, wherever va lies in the leaf.
C8_PointerIsLeafBase ==
  \A t \in Threads :
    \A k \in 1 .. Len(ProcessLog(t)) :
      ProcessLog(t)[k][3] = pmap_segmap(th[t].pmap, ProcessLog(t)[k][1])

\* Thread 1 creates the pmaps and reserves in the first under PMAP_CANFAIL
\* while the page source comes under pressure; the other threads tear the
\* second pmap down, which puts its root on the free list.  A thread inside
\* pmap_segtab_alloc is scheduled again and again: uvm_wait returns.
InitGet ==
  /\ cfg \in [lp64 : BOOLEAN, ptpcache : BOOLEAN, debug : BOOLEAN, segtabsize : {2}]
  /\ ci = [t \in Threads |-> IdleCpu]
  /\ before = [t \in Threads |-> NoSnapshot]
  /\ pgfree = Pages
  /\ shortage = FALSE
  /\ seg = [s \in SegAddrs |-> EmptySegtab]
  /\ ptes = [pg \in Pages |-> ZeroPtes]
  /\ free_segtab = NULL
  /\ ptp_pgflist = << >>
  /\ pm_segtab = [pm \in Pmaps |-> NULL]
  /\ pm_minaddr = [pm \in Pmaps |-> 0]
  /\ th = [t \in Threads |-> IdleThread]
  /\ panicked = ""
  /\ budget = GetCalls

\* the steps of the teardown of a pmap that has no leaves
ReleaseEmptyStep(t) == RelLoop(t) \/ RelEnd(t) \/ RelUnlink(t)

NextGet ==
  \/ \E pm \in Pmaps : InitCall(1, pm)
  \/ AllocStep(1)
  \/ \E va \in LeafVAs(1) : ReserveCallPlain(1, 1, va, PMAP_CANFAIL)
  \/ ReserveAloneStep(1)
  \/ \E t \in Threads \ {1} : DestroyCall(t, 2, "null", 0)
  \/ \E t \in Threads \ {1} : ReleaseEmptyStep(t)
  \/ MemPressure

SpecGet == InitGet /\ [][NextGet]_vars /\ \A t \in Threads : WF_vars(AllocStep(t))

\* thread t is inside pmap_segtab_alloc
InAlloc(t) == th[t].pc \in {"sa_lock", "sa_page", "sa_push"}

\* C11 (segtab_get never fails): pmap_segtab_alloc never returns NULL; a
\* step of it that finds neither a segtab on the free list nor a page goes
\* back to the free list (uvm_wait, goto again) and neither returns nor
\* panics, under PMAP_CANFAIL too; and if from some time on there is a page
\* to be had or a segtab on the free list, every thread inside
\* pmap_segtab_alloc leaves it (unless the kernel has panicked elsewhere).
C11_NeverNull ==
  \A t \in Threads :
    th[t].pc \in {"init_store", "rsv_xcas"} => th[t].nstb # NULL

C11_Retry ==
  \A t \in Threads :
    InAlloc(t) =>
      /\ th'[t].pc \in {"sa_lock", "sa_page", "sa_push", "init_store", "rsv_xcas",
                        "panic"}
      /\ th'[t].pc = "panic" /\ th[t].pc # "panic" =>
           panicked' \in {"pmap_segtab_alloc: from free list",
                          "pmap_segtab_alloc: allocated"}
      /\ th[t].pc = "sa_page" /\ ~CanAllocPage /\ th'[t] # th[t] =>
           th'[t].pc = "sa_lock" /\ panicked' = ""

LeafSlots(pm) ==
  { << stb, i >> \in LeafSegtabs(pm) \X Slots : seg[stb][i] # NULL }

IsCurlwpAlways(l, t) == TRUE

\* line 430: l == curlwp, evaluated by thread t, which is the lwp running on
\* its CPU
IsCurlwp(l, t) == l = t

(* pmap_segtab_activate(pm, l), lines 428-447, called by thread t.  The     *)
(* caller passes the pmap of the vmspace of l (the KASSERT of line 433),    *)
(* and a user pmap has its root (pmap_segtab_init) while it is activated.   *)
ActivateCall(t, pm, l) ==
  /\ Running /\ th[t].pc = "idle"
  /\ IF pm = pmap_kernel THEN TRUE ELSE Usable(pm)
  /\ IF IsCurlwp(l, t)
       THEN ci' = [ci EXCEPT
                     ![l].md_xtab = Append(@, << "activate", pm, l >>),
                     ![l].ci_pmap_user_segtab =
                        IF pm = pmap_kernel THEN PMAP_INVALID_SEGTAB_ADDRESS
                        ELSE pm_segtab[pm],
                     ![l].ci_pmap_user_seg0tab =
                        IF ~cfg.lp64 THEN @
                        ELSE IF pm = pmap_kernel THEN PMAP_INVALID_SEGTAB_ADDRESS
                        ELSE seg[pm_segtab[pm]][0]]
       ELSE UNCHANGED ci
  /\ th' = [th EXCEPT ![t] = [IdleThread EXCEPT !.op = "activate", !.pmap = pm]]
  /\ budget > 0 /\ budget' = budget - 1
  /\ UNCHANGED << cfg, before, pgfree, shortage, seg, ptes, free_segtab, ptp_pgflist,
                  pm_segtab, pm_minaddr, panicked >>

(* pmap_segtab_deactivate(pm), lines 450-461, called by thread t: curcpu()  *)
(* is the CPU of t.                                                         *)
DeactivateCall(t, pm) ==
  /\ Running /\ th[t].pc = "idle"
  /\ ci' = [ci EXCEPT
              ![t].md_xtab = Append(@, << "deactivate", pm >>),
              ![t].ci_pmap_user_segtab = PMAP_INVALID_SEGTAB_ADDRESS,
              ![t].ci_pmap_user_seg0tab = IF cfg.lp64 THEN NULL ELSE @]
  /\ th' = [th EXCEPT ![t] = [IdleThread EXCEPT !.op = "deactivate", !.pmap = pm]]
  /\ budget > 0 /\ budget' = budget - 1
  /\ UNCHANGED << cfg, before, pgfree, shortage, seg, ptes, free_segtab, ptp_pgflist,
                  pm_segtab, pm_minaddr, panicked >>

(* Thread 1 builds the directory of pmap 1 while either thread activates    *)
(* and deactivates the kernel pmap and pmap 1, for itself or for the other  *)
(* lwp.                                                                     *)
InitCpu ==
  /\ cfg \in [lp64 : BOOLEAN, ptpcache : {TRUE}, debug : {TRUE}, segtabsize : {2}]
  /\ ci = [t \in Threads |-> IdleCpu]
  /\ before = [t \in Threads |-> NoSnapshot]
  /\ pgfree = Pages
  /\ shortage = FALSE
  /\ seg = [s \in SegAddrs |-> EmptySegtab]
  /\ ptes = [pg \in Pages |-> ZeroPtes]
  /\ free_segtab = NULL
  /\ ptp_pgflist = << >>
  /\ pm_segtab = [pm \in Pmaps |-> NULL]
  /\ pm_minaddr = [pm \in Pmaps |-> 0]
  /\ th = [t \in Threads |-> IdleThread]
  /\ panicked = ""
  /\ budget = CpuCalls

CpuPmaps == {pmap_kernel, 1}

NextCpu ==
  \/ InitCall(1, 1)
  \/ AllocStep(1)
  \/ \E va \in LeafVAs(1) : ReserveCallPlain(1, 1, va, 0)
  \/ ReserveAloneStep(1)
  \/ \E t, l \in Threads : \E pm \in CpuPmaps : ActivateCall(t, pm, l)
  \/ \E t \in Threads : \E pm \in CpuPmaps : DeactivateCall(t, pm)

SpecCpu == InitCpu /\ [][NextCpu]_vars

\* C13 (activation publishes the root): pmap_segtab_activate(pm, l) changes
\* the per-CPU context only when l is the lwp running on the CPU; then the
\* MD hook is called once, ci_pmap_user_segtab becomes the invalid sentinel
\* for the kernel pmap and pm->pm_segtab otherwise, and with three levels
\* ci_pmap_user_seg0tab becomes the sentinel, respectively the slot 0 of the
\* root; when l is another lwp, no per-CPU field changes and no MD hook is
\* called.  pmap_segtab_deactivate(pm) always leaves ci_pmap_user_segtab
\* equal to the invalid sentinel.
C13_Step ==
  /\ \A t, l \in Threads : \A pm \in CpuPmaps :
       ActivateCall(t, pm, l) =>
         IF l = t
           THEN /\ \A u \in Threads \ {t} : ci'[u] = ci[u]
                /\ ci'[t].md_xtab = Append(ci[t].md_xtab, << "activate", pm, l >>)
                /\ ci'[t].ci_pmap_user_segtab =
                     IF pm = pmap_kernel THEN PMAP_INVALID_SEGTAB_ADDRESS
                     ELSE pm_segtab[pm]
                /\ cfg.lp64 =>
                     ci'[t].ci_pmap_user_seg0tab =
                       IF pm = pmap_kernel THEN PMAP_INVALID_SEGTAB_ADDRESS
                       ELSE seg[pm_segtab[pm]][0]
           ELSE ci' = ci
  /\ \A t \in Threads : \A pm \in CpuPmaps :
       DeactivateCall(t, pm) =>
         /\ ci'[t].ci_pmap_user_segtab = PMAP_INVALID_SEGTAB_ADDRESS
         /\ \A u \in Threads \ {t} : ci'[u] = ci[u]
C13_ActivationPublishesRoot ==
  /\ [](\A t \in Threads :
          ReturnedFrom(t, "deactivate") =>
            ci[t].ci_pmap_user_segtab = PMAP_INVALID_SEGTAB_ADDRESS)
  /\ [][C13_Step]_vars
\* thread 2 has activated pmap 1 for itself on a three-level build once the
\* root had its slot 0 filled, and thread 1 has activated and deactivated
C13_Witness ==
  /\ cfg.lp64
  /\ ReturnedFrom(2, "activate") /\ th[2].pmap = 1
  /\ ci[2].ci_pmap_user_segtab = pm_segtab[1] /\ pm_segtab[1] # NULL
  /\ ci[2].ci_pmap_user_seg0tab = seg[pm_segtab[1]][0]
  /\ ci[2].ci_pmap_user_seg0tab \in SegAddrs
  /\ ReturnedFrom(1, "deactivate")
  /\ Len(ci[1].md_xtab) = 2 /\ ci[1].md_xtab[1][1] = "activate"
  /\ ci[1].ci_pmap_user_segtab = PMAP_INVALID_SEGTAB_ADDRESS
  /\ ci[1].ci_pmap_user_seg0tab = NULL

(* ------------------------ the free list of segtabs --------------------- *)
(* A build with four slots in a segtab, where VM_MIN_ADDRESS may lie two    *)
(* segments into the first segtab; thread t works on pmap t, so that the    *)
(* threads meet in pmap_segtab_alloc and pmap_segtab_free only.             *)
ListMinAddrs == {0, 2 * NBSEG}

InitList ==
  /\ cfg \in [lp64 : BOOLEAN, ptpcache : {TRUE}, debug : BOOLEAN, segtabsize : {4}]
  /\ ci = [t \in Threads |-> IdleCpu]
  /\ before = [t \in Threads |-> NoSnapshot]
  /\ pgfree = Pages
  /\ shortage = FALSE
  /\ seg = [s \in SegAddrs |-> EmptySegtab]
  /\ ptes = [pg \in Pages |-> ZeroPtes]
  /\ free_segtab = NULL
  /\ ptp_pgflist = << >>
  /\ pm_segtab = [pm \in Pmaps |-> NULL]
  /\ \E m \in ListMinAddrs : pm_minaddr = [pm \in Pmaps |-> m]
  /\ th = [t \in Threads |-> IdleThread]
  /\ panicked = ""
  /\ budget = ListCalls

\* the first leaf of the pmap and a leaf of its second top-level slot
ListVAs == {2 * NBSEG} \cup (IF cfg.lp64 THEN {NBXSEG + NBSEG} ELSE {})

NextList ==
  \/ \E t \in Threads : InitCall(t, t)
  \/ \E t \in Threads : AllocStep(t)
  \/ \E t \in Threads : \E va \in ListVAs : ReserveCallPlain(t, t, va, 0)
  \/ \E t \in Threads : ReserveAloneStep(t)
  \/ \E t \in Threads : \E cb \in {"null", "zero"} : DestroyCall(t, t, cb, 0)
  \/ \E t \in Threads : ReleaseStep(t)

SpecList == InitList /\ [][NextList]_vars

\* C14 (free-list well-formedness): in every state in which
\* pmap_segtab_lock is not held, every segtab on the free list has all its
\* slots other than slot 0 NULL, and its slot 0 is NULL or points to another
\* segtab of the free list, whatever the interleaving of pmap_segtab_alloc
\* (the cutting of a fresh page included) and pmap_segtab_free.
C14_FreeListWellFormed ==
  \A stb \in FreeSegtabs :
    /\ \A i \in Slots \ {0} : seg[stb][i] = NULL
    /\ seg[stb][0] = NULL \/ (seg[stb][0] \in FreeSegtabs /\ seg[stb][0] # stb)

\* C15 (teardown start index): for every pm_minaddr, with two and with three
\* levels, pmap_segtab_release starts at the slot of va, so that
\* pmap_segtab_destroy skips only what lies below pm_minaddr: when it has
\* returned, no leaf at or above pm_minaddr is left and no page is lost;
\* every sub-directory has all its slots NULL when it is put on the free
\* list, so that the check before pmap_segtab_free never fails; and the slot
\* of the parent is NULL after the recursion.
C15_AfterDestroy ==
  \A t \in Threads :
    ReturnedFrom(t, "destroy") =>
      /\ pm_segtab[th[t].pmap] # NULL =>
           \A va \in LeafVAs(th[t].pmap) : pmap_segmap(th[t].pmap, va) = NULL
      /\ NoPageLost
C15_CheckNeverFails ==
  panicked \notin {"pmap_segtab_release: release seg",
                   "pmap_segtab_release: release xseg",
                   "KASSERT: stb->seg_seg[i] == NULL"}
C15_Step ==
  \A t \in Threads :
    /\ th[t].pc = "rel_end" /\ th'[t].pc = "rel_unlink" =>
         \A i \in Slots : seg[Top(th[t]).stb][i] = NULL
    /\ th[t].pc = "rel_unlink" /\ th'[t].pc # "rel_unlink" /\ Top(th[t]).ps # NULL =>
         seg'[Top(th[t]).ps][Top(th[t]).pi] = NULL
C15_TeardownStartIndex ==
  /\ []C15_AfterDestroy
  /\ []C15_CheckNeverFails
  /\ [][C15_Step]_vars

(* The walks of SpecWalk, where a thread inside pmap_pte_process is not     *)
(* stopped for ever: the loop sleeps nowhere and takes no lock.             *)
SpecWalkFair == InitWalk /\ [][NextWalk]_vars /\ WF_vars(PpLoop(1))

\* C16 (the range walker terminates): for page-aligned sva <= eva of the
\* width of a vaddr_t, pmap_pte_process returns; every turn of its loop
\* moves the current address strictly up and never past eva, also in the
\* last segment of the address space, where pmap_trunc_seg(va) + NBSEG wraps
\* to 0 and eva is taken instead; with sva = eva the callback is never
\* called.
C16_Step ==
  \A t \in Threads :
    th[t].pc = "pp_loop" /\ th'[t] # th[t] =>
      \/ /\ th'[t].pc = "pp_loop"
         /\ th[t].va < th'[t].va /\ th'[t].va <= th[t].eva
         /\ th'[t].eva = th[t].eva
      \/ /\ th'[t].pc = "idle"
         /\ th[t].va = th[t].eva
         /\ th[t].sva = th[t].eva => th'[t].cblog = << >>
C16_WalkerTerminates ==
  /\ [][C16_Step]_vars
  /\ \A t \in Threads : (th[t].pc = "pp_loop") ~> (th[t].pc = "idle")
\* a walk up to the last page of the address space has returned: its last
\* turn was in the last segment, where the end of the segment wraps to 0
C16_Witness ==
  /\ ReturnedFrom(1, "process")
  /\ th[1].eva = VaddrSize - PAGE_SIZE
  /\ th[1].sva <= VaddrSize - NBSEG - NBSEG
  /\ th[1].va = th[1].eva
  /\ th[1].cblog # << >>
  /\ th[1].cblog[Len(th[1].cblog)][1] = VaddrSize - NBSEG

(* --------------------------- two-phase teardown ------------------------ *)
(* One thread on one pmap: pmap_segtab_destroy without a callback is called *)
(* only right after a pmap_segtab_destroy with the zeroing callback has     *)
(* returned, and any pmap_segtab_destroy may follow on the NULL root.       *)
InitTwo ==
  /\ cfg \in [lp64 : BOOLEAN, ptpcache : BOOLEAN, debug : BOOLEAN, segtabsize : {2}]
  /\ ci = [t \in Threads |-> IdleCpu]
  /\ before = [t \in Threads |-> NoSnapshot]
  /\ pgfree = Pages
  /\ shortage = FALSE
  /\ seg = [s \in SegAddrs |-> EmptySegtab]
  /\ ptes = [pg \in Pages |-> ZeroPtes]
  /\ free_segtab = NULL
  /\ ptp_pgflist = << >>
  /\ pm_segtab = [pm \in Pmaps |-> NULL]
  /\ \E m \in MinAddrs : pm_minaddr = [pm \in Pmaps |-> m]
  /\ th = [t \in Threads |-> IdleThread]
  /\ panicked = ""
  /\ budget = TwoCalls

NextTwo ==
  \/ InitCall(1, 1)
  \/ AllocStep(1)
  \/ \E va \in LeafVAs(1) : ReserveCallPlain(1, 1, va, 0)
  \/ ReserveAloneStep(1)
  \/ StorePte(1)
  \/ pm_segtab[1] # NULL /\ DestroyCall(1, 1, "zero", 0)
  \/ /\ ReturnedFrom(1, "destroy") /\ th[1].cb = "zero" /\ pm_segtab[1] # NULL
     /\ DestroyCall(1, 1, "null", 0)
  \/ /\ ReturnedFrom(1, "destroy") /\ pm_segtab[1] = NULL
     /\ \E cb \in {"null", "zero"} : DestroyCall(1, 1, cb, 0)
  \/ ReleaseStep(1)

SpecTwo == InitTwo /\ [][NextTwo]_vars

\* the walk along the free list from stb comes to its end within n steps
RECURSIVE FreeListEnds(_, _)
FreeListEnds(stb, n) ==
  IF stb = NULL THEN TRUE
  ELSE IF n = 0 THEN FALSE
  ELSE FreeListEnds(seg[stb][0], n - 1)

\* C17 (two-phase teardown): after pmap_segtab_destroy(P, cb, flags) with a
\* zeroing callback followed by pmap_segtab_destroy(P, NULL, 0), pm_segtab
\* of P is NULL, every segtab of P, the root included, is on the free list
\* exactly once, and no leaf page has been released twice; a further
\* pmap_segtab_destroy on the NULL root returns at once and changes nothing.
C17_AfterTwoPhase ==
  ReturnedFrom(1, "destroy") /\ th[1].cb = "null" =>
    /\ pm_segtab[1] = NULL
    /\ free_segtab # NULL
    /\ FreeListEnds(free_segtab, Cardinality(SegAddrs))
    /\ \A s \in FreeSegtabs : \A s2 \in SegAddrs :
         PMAP_UNMAP_POOLPAGE(s2) = PMAP_UNMAP_POOLPAGE(s) => s2 \in FreeSegtabs
    /\ Cardinality(Range(ptp_pgflist)) = Len(ptp_pgflist)
    /\ Range(ptp_pgflist) \cap pgfree = {}
C17_Step ==
  /\ th[1].pc = "rel_end" /\ th'[1].pc = "rel_unlink" =>
       Top(th[1]).stb \notin FreeSegtabs /\ Top(th[1]).stb \in FreeSegtabs'
  /\ th[1].pc = "rel_unlink" /\ th'[1].pc # "rel_unlink" =>
       Top(th[1]).stb \in FreeSegtabs'
  /\ th[1].pc = "rel_push" /\ th'[1].pc = "rel_null" =>
       PMAP_UNMAP_POOLPAGE(th[1].pte) \notin (Range(ptp_pgflist) \cup pgfree)
  /\ th[1].pc = "idle" /\ budget' # budget /\ th'[1].op = "destroy"
       /\ pm_segtab[1] = NULL =>
         /\ th'[1].pc = "idle"
         /\ UNCHANGED << cfg, ci, before, pgfree, shortage, seg, ptes, free_segtab,
                         ptp_pgflist, pm_segtab, pm_minaddr, panicked >>
C17_TwoPhaseTeardown == []C17_AfterTwoPhase /\ [][C17_Step]_vars
\* on a three-level build both phases have run on a directory with a leaf,
\* and a further pmap_segtab_destroy has returned from the NULL root
C17_Witness ==
  /\ cfg.lp64 /\ cfg.ptpcache
  /\ ReturnedFrom(1, "destroy") /\ th[1].cb = "null"
  /\ pm_segtab[1] = NULL
  /\ Cardinality(FreeSegtabs) = NSEGTAB_PER_PAGE
  /\ ptp_pgflist # << >>
  /\ budget = TwoCalls - 5

\* C18 (concurrent reservers never trip the zero-PTE check): when several
\* threads call pmap_pte_reserve for addresses of one leaf that is not there
\* yet, and a thread whose call has returned stores a PTE that is not 0,
\* every other call still returns the slot in the winner's leaf and no thread
\* panics in pmap_check_ptes; the check of pmap_pte_reserve is applied only
\* to a leaf into which no caller has been able to write yet.
C18_NoPanic == panicked # "pmap_check_ptes"
C18_Step ==
  \A t \in Threads :
    /\ cfg.debug /\ th[t].pc = "rsv_chk" /\ th'[t] # th[t] =>
         \A u \in Threads \ {t} :
           ~(/\ ReturnedFrom(u, "reserve") /\ th[u].ret # NULL
             /\ PMAP_UNMAP_POOLPAGE(th[u].ret) = PMAP_UNMAP_POOLPAGE(th[t].pte))
    /\ Returns(t, "reserve") /\ th'[t].ret # NULL =>
         th'[t].ret = pmap_pte_lookup(th'[t].pmap, th'[t].va)
C18_CheckOnlyFreshLeaf == []C18_NoPanic /\ [][C18_Step]_vars

\* C19 (a leaf page has one owner): with PMAP_PTP_CACHE, in every state no
\* page is both in ptp_pgflist and in a segtab slot of a pmap, and no page
\* is in ptp_pgflist twice; so a pmap_pte_reserve in another pmap that runs
\* beside pmap_segtab_destroy never installs a page that is still installed
\* in the pmap being torn down.
\* the segtabs of pm that its teardown has put on the free list already
\* (line 317) while the pointer to them is not NULL yet (line 319)
FreedSegtabs(pm) ==
  { Top(th[t]).stb : t \in { u \in Threads : th[u].pc = "rel_unlink" /\ th[u].pmap = pm } }
\* the pages in the slots of the segtabs pm still owns
InstalledPages(pm) ==
  IF pm_segtab[pm] = NULL \/ pm_segtab[pm] \in FreedSegtabs(pm) THEN {}
  ELSE { PMAP_UNMAP_POOLPAGE(seg[x[1]][x[2]]) :
           x \in { y \in (LeafSegtabs(pm) \ FreedSegtabs(pm)) \X Slots :
                     seg[y[1]][y[2]] # NULL } }
C19_NotCachedAndInstalled ==
  cfg.ptpcache =>
    \A pm \in Pmaps : InstalledPages(pm) \cap Range(ptp_pgflist) = {}
C19_NotInstalledTwice ==
  \A pm1, pm2 \in Pmaps :
    pm1 # pm2 => InstalledPages(pm1) \cap InstalledPages(pm2) = {}
Snapshot(pm) ==
  [slots |-> [s \in DirSegtabs(pm) |-> seg[s]],
   lookup |-> [a \in PageAligned(VAs) |-> pmap_pte_lookup(pm, a)]]

\* a call of pmap_pte_reserve; the history keeps what the call found
ReserveCallNoted(t, pm, va, flags) ==
  /\ ReserveCall(t, pm, va, flags)
  /\ before' = [before EXCEPT ![t] = Snapshot(pm)]

(* One thread fills the directory of one pmap, with and without             *)
(* PMAP_CANFAIL, while the page source comes under pressure and recovers.   *)
InitFail ==
  /\ cfg \in [lp64 : BOOLEAN, ptpcache : BOOLEAN, debug : BOOLEAN, segtabsize : {2}]
  /\ ci = [t \in Threads |-> IdleCpu]
  /\ before = [t \in Threads |-> NoSnapshot]
  /\ pgfree = Pages
  /\ shortage = FALSE
  /\ seg = [s \in SegAddrs |-> EmptySegtab]
  /\ ptes = [pg \in Pages |-> ZeroPtes]
  /\ free_segtab = NULL
  /\ ptp_pgflist = << >>
  /\ pm_segtab = [pm \in Pmaps |-> NULL]
  /\ pm_minaddr = [pm \in Pmaps |-> 0]
  /\ th = [t \in Threads |-> IdleThread]
  /\ panicked = ""
  /\ budget = FailCalls

NextFail ==
  \/ InitCall(1, 1)
  \/ AllocStep(1)
  \/ \E va \in PageAligned(VAs) : \E f \in Flags : ReserveCallNoted(1, 1, va, f)
  \/ ReserveAloneStep(1)
  \/ StorePte(1)
  \/ MemPressure

SpecFail == InitFail /\ [][NextFail]_vars

\* C20 (a failed reserve): when pmap_pte_reserve(P, va, PMAP_CANFAIL)
\* returns NULL, no leaf has been installed and pmap_pte_lookup(P, a) is for
\* every address a what it was before the call; no page is held or lost;
\* the slots of the segtabs that hold leaves are what they were, and a slot
\* of the root is what it was or, with three levels, was NULL and holds the
\* segtab the call obtained, all of whose slots are NULL: that segtab stays
\* installed.  With two levels no slot has changed.
C20_Step ==
  \A t \in Threads :
    Returns(t, "reserve") /\ th'[t].ret = NULL =>
      LET pm == th'[t].pmap
          root == pm_segtab[pm]
          was == before[t]
      IN /\ th[t].flags = PMAP_CANFAIL
         /\ \A a \in PageAligned(VAs) : pmap_pte_lookup(pm, a) = was.lookup[a]
         /\ \A s \in DOMAIN was.slots : s # root => seg'[s] = was.slots[s]
         /\ ~cfg.lp64 => seg'[root] = was.slots[root]
         /\ \A i \in Slots :
              \/ seg'[root][i] = was.slots[root][i]
              \/ /\ cfg.lp64 /\ i = XSegIndex(th'[t].va)
                 /\ was.slots[root][i] = NULL
                 /\ seg'[root][i] \notin DOMAIN was.slots
                 /\ seg'[seg'[root][i]] = EmptySegtab
         /\ th'[t].pg = NULL /\ th'[t].nstb = NULL
         /\ NoPageLost'
C20_FailedReserve == [][C20_Step]_vars
\* with three levels a reserve under PMAP_CANFAIL has returned NULL and the
\* segtab it obtained is in the slot of the root that was NULL before
C20_Witness ==
  /\ cfg.lp64
  /\ ReturnedFrom(1, "reserve") /\ th[1].ret = NULL
  /\ pm_segtab[1] # NULL
  /\ before[1].slots[pm_segtab[1]][XSegIndex(th[1].va)] = NULL
  /\ seg[pm_segtab[1]][XSegIndex(th[1].va)] # NULL
  /\ pmap_pte_lookup(1, th[1].va) = NULL

\* C20 as the specification has it: when pmap_pte_reserve(P, va,
\* PMAP_CANFAIL) returns NULL, every slot of every segtab of P holds what it
\* held before the call, nothing the call obtained is installed or held, and
\* pmap_pte_lookup is unchanged, with two and with three levels.
C20_UnchangedStep ==
  \A t \in Threads :
    Returns(t, "reserve") /\ th'[t].ret = NULL =>
      /\ \A s \in DOMAIN before[t].slots : seg'[s] = before[t].slots[s]
      /\ \A a \in PageAligned(VAs) :
           pmap_pte_lookup(th'[t].pmap, a) = before[t].lookup[a]
      /\ th'[t].pg = NULL /\ th'[t].nstb = NULL
C20_DirectoryUnchanged == [][C20_UnchangedStep]_vars

=============================================================================
